---- MODULE Spec2Model ----
(***************************************************************************)
(* Model of the chat server of src/server.py (class ChatServer): the       *)
(* connection registry self.clients, the channel registry self.channels,   *)
(* the non-reentrant threading.Lock self.lock, one handler thread per      *)
(* accepted connection (handle_client / process_message / remove_client)   *)
(* and the main thread (start_server / shutdown).                          *)
(*                                                                         *)
(* A "with self.lock:" block is one step, enabled only while the lock is   *)
(* free: no step of another thread that takes the lock can fall inside it. *)
(* A block whose body calls broadcast stops at that call with the lock     *)
(* still held, since broadcast acquires self.lock itself. Steps that only  *)
(* read the handler's own socket or locals are joined to the next step     *)
(* that touches shared state.                                              *)
(* The timestamp field of a message is left out: no branch reads it.       *)
(*                                                                         *)
(* FramingSpec follows the byte stream of one connection through           *)
(* receive_message and the receive loop of handle_client.                  *)
(***************************************************************************)
EXTENDS Integers, Sequences, FiniteSets, TLC

VARIABLES clients, channels, lock, running, pc, loc, sockOpen, peerUp, wire, ops,
          stalled, rx, scope

vars == <<clients, channels, lock, running, pc, loc, sockOpen, peerUp, wire, ops,
          stalled, rx>>

\* ---------------------------------------------------------------- bounds
\* connections accepted; events from outside after the accepts (messages
\* after registration, transport resets and stalls, the stop signal)
NumConns == 3
MaxOps == 2

\* message units one peer writes to its stream
MaxUnits == 3

\* A run is explored under one of two scopes, fixed at its start: all the
\* connections with MaxOps events, or one connection fewer with one event
\* more.
Scopes == {[conns |-> NumConns, ops |-> MaxOps],
           [conns |-> NumConns - 1, ops |-> MaxOps + 1]}

\* ------------------------------------------------------------- universe
Main == 0
Conns == 1..NumConns
Threads == Conns \cup {Main}
NickList == <<"alice", "bob", "carol">>
Nicks == {NickList[i] : i \in 1..Len(NickList)}

\* Nicknames are opaque strings: the k-th accepted connection draws its own
\* from the first k names, which gives every pattern of equal and distinct
\* nicknames among the connections.
NickChoices(c) == {NickList[i] : i \in 1..(IF c < Len(NickList) THEN c ELSE Len(NickList))}
General == "general"
ChanNames == {General, "dev", ""}
Absent == "<absent>"
Server == "SERVER"
All == "all"

\* ------------------------------------------------------------- messages
create_message(sender, recipient, msg_type, content) ==
    [sender |-> sender, recipient |-> recipient, type |-> msg_type, content |-> content]

\* An inbound message, with Absent for a key the peer left out.
\* sender, channel and target are the locals of process_message: the sender's
\* nickname, current_channel (channel_name for list_users) and
\* recipient_socket (the empty set for None).
Inbound(type, content, recipient, echo) ==
    [type |-> type, content |-> content, recipient |-> recipient, echo |-> echo,
     sender |-> Absent, channel |-> Absent, target |-> {}]

NoMsg == Inbound("none", Absent, Absent, Absent)

\* message.get('echo', False), read as a condition
EchoFlag(m) == m.echo = "true"

\* Python's truth value of a channel name: the empty string is false
Truthy(name) == name # ""

InboundMsgs ==
    {Inbound("chat", "hi", Absent, e) : e \in {"true", "false", Absent}}
    \cup {Inbound("private", "hi", n, e) : n \in Nicks, e \in {"true", "false"}}
    \cup {Inbound("join_channel", ch, Absent, Absent) : ch \in ChanNames}
    \cup {Inbound("create_channel", ch, Absent, Absent) : ch \in ChanNames}
    \cup {Inbound("list_users", ch, Absent, Absent) : ch \in ChanNames \cup {Absent}}
    \cup {Inbound("ping", Absent, Absent, Absent)}
    \cup {Inbound("register", "carol", Absent, Absent)}

\* ---------------------------------------------------------------- sends
\* sendall succeeds on an open socket whose peer has not reset
CanSend(c) == sockOpen[c] /\ peerUp[c]

\* sendall to c does not return: the socket is healthy but its peer has
\* stopped reading
Stalling(c) == CanSend(c) /\ c \in stalled

\* wire[c] is what the latest step wrote to the socket of c
Quiet == [x \in Conns |-> << >>]

\* send_message to each connection of targets, failures swallowed
FanOut(targets, m) ==
    [x \in Conns |-> IF x \in targets /\ CanSend(x) THEN <<m>> ELSE << >>]

\* send_message to one connection (the caller checks CanSend)
SendTo(ob, c, m) == [ob EXCEPT ![c] = Append(@, m)]

\* --------------------------------------------------------------- framing
\* The byte stream of one connection. A message unit is a JSON object
\* followed by a newline; its bytes are the opening brace, a byte that
\* tells the units apart, and the closing brace.
NL == 0
LB == 1
RB == 2
Unit(k) == <<LB, RB + k, RB>>

\* the bytes of units k..n, each with its newline
RECURSIVE Stream(_, _)
Stream(k, n) == IF k > n THEN << >> ELSE Unit(k) \o <<NL>> \o Stream(k + 1, n)

\* json.loads: the unit a byte string decodes to, 0 when it raises (a piece
\* of an object is not JSON)
Decode(bytes) ==
    IF Len(bytes) = 3 /\ bytes[1] = LB /\ bytes[3] = RB /\ bytes[2] > RB
    THEN bytes[2] - RB ELSE 0

\* '\n' in buffer, and buffer.split('\n', 1)[0]
HasNL(buf) == \E i \in 1..Len(buf) : buf[i] = NL
FirstNL(buf) == CHOOSE i \in 1..Len(buf) : buf[i] = NL /\ \A j \in 1..(i - 1) : buf[j] # NL
BeforeNL(buf) == SubSeq(buf, 1, FirstNL(buf) - 1)

\* rx follows one stream: plan is what the peer has yet to write, sock what
\* has arrived and is unread, buffer the local of receive_message, routed
\* the units handed to process_message, units the number the peer writes, at
\* the handler's place ("recv" in receive_message, "closed" after the loop).
\* RxIdle is its value while no stream is followed.
RxIdle == [plan |-> << >>, sock |-> << >>, buffer |-> << >>, routed |-> << >>,
           units |-> 0, at |-> "idle"]

\* ------------------------------------------------------------ registries
Registered == DOMAIN clients

\* mutant: the nickname check finds nothing
NicknameInUse_NoCheck(n) == FALSE

\* handle_client: any(client_info['nickname'] == nickname ...)
NicknameInUse(n) == \E s \in Registered : clients[s].nickname = n

\* the sockets the loop of process_message (private) can stop at
Lookup(n) == {s \in Registered : clients[s].nickname = n}

\* the server's state after __init__
ServerInit ==
    /\ clients = << >>
    /\ channels = [ch \in {General} |-> {}]
    /\ lock = {}
    /\ running = TRUE
    /\ pc = [t \in Threads |-> IF t = Main THEN "listening" ELSE "idle"]
    /\ loc = [c \in Conns |-> NoMsg]
    /\ sockOpen = [c \in Conns |-> FALSE]
    /\ peerUp = [c \in Conns |-> FALSE]
    /\ wire = Quiet
    /\ ops = 0
    /\ stalled = {}

Init == ServerInit /\ rx = RxIdle /\ scope \in Scopes


\* ------------------------------------------------------------- the lock
\* threading.Lock: acquire succeeds only while no thread, the caller
\* included, holds the lock
LockFree == lock = {}

\* handle_client: the test of "while self.running" before the next receive
NextLoop == IF running THEN "recv" ELSE "rc"

\* the locals of c once the statement that used them is over
Forget(c) == [loc EXCEPT ![c] = NoMsg]

\* ------------------------------------------------- accept and registration
\* start_server: accept a connection and start its handler thread. The
\* accept loop takes one connection at a time; they are numbered in the
\* order of their accept.
Accept(c) ==
    /\ pc[Main] = "listening"
    /\ pc[c] = "idle"
    /\ c <= scope.conns
    /\ \A d \in Conns : d < c => pc[d] # "idle"
    /\ pc' = [pc EXCEPT ![c] = "recv_reg"]
    /\ sockOpen' = [sockOpen EXCEPT ![c] = TRUE]
    /\ peerUp' = [peerUp EXCEPT ![c] = TRUE]
    /\ wire' = Quiet
    /\ UNCHANGED <<clients, channels, lock, running, loc, ops, stalled, rx, scope>>

\* the peer resets its transport
PeerReset(c) ==
    /\ pc[c] \notin {"idle", "closed"}
    /\ peerUp[c]
    /\ c \notin stalled
    /\ ops < scope.ops
    /\ ops' = ops + 1
    /\ peerUp' = [peerUp EXCEPT ![c] = FALSE]
    /\ wire' = Quiet
    /\ UNCHANGED <<clients, channels, lock, running, pc, loc, sockOpen, stalled, rx, scope>>

\* the peer of a registered connection stops reading its socket and never
\* resumes: once the buffers between them are full, which is taken to be at
\* once, a sendall to it blocks. A socket that was never registered has been
\* sent nothing that could fill them.
PeerStall(c) ==
    /\ c \in Registered
    /\ CanSend(c)
    /\ c \notin stalled
    /\ ops < scope.ops
    /\ ops' = ops + 1
    /\ stalled' = stalled \cup {c}
    /\ wire' = Quiet
    /\ UNCHANGED <<clients, channels, lock, running, pc, loc, sockOpen, peerUp, rx, scope>>

\* mutant: the client is entered in self.clients but not in the member set
\* of general
RegisterClient_NoMember(c, n) ==
    [cl |-> [s \in Registered \cup {c} |->
                IF s = c THEN [nickname |-> n, channel |-> General] ELSE clients[s]],
     ch |-> channels]

\* the registries after registering c under nickname n
RegisterClient(c, n) ==
    [cl |-> [s \in Registered \cup {c} |->
                IF s = c THEN [nickname |-> n, channel |-> General] ELSE clients[s]],
     ch |-> [channels EXCEPT ![General] = @ \cup {c}]]

\* handle_client: the first message is a register message with nickname n;
\* the block under the lock checks the nickname and registers the client,
\* or sends the error and closes the socket (a failed send skips the close,
\* which is left to remove_client)
Register(c, n) ==
    /\ pc[c] = "recv_reg"
    /\ sockOpen[c]
    /\ LockFree
    /\ IF NicknameInUse(n)
       THEN /\ wire' = IF CanSend(c)
                       THEN SendTo(Quiet, c, create_message(Server, n, "error", <<"nickname_in_use">>))
                       ELSE Quiet
            /\ sockOpen' = [sockOpen EXCEPT ![c] = IF CanSend(c) THEN FALSE ELSE @]
            /\ pc' = [pc EXCEPT ![c] = "rc"]
            /\ UNCHANGED <<clients, channels, loc>>
       ELSE /\ clients' = RegisterClient(c, n).cl
            /\ channels' = RegisterClient(c, n).ch
            /\ loc' = [loc EXCEPT ![c] = Inbound("register", n, Absent, Absent)]
            /\ pc' = [pc EXCEPT ![c] = "welcome"]
            /\ wire' = Quiet
            /\ UNCHANGED <<sockOpen>>
    /\ UNCHANGED <<lock, running, peerUp, ops, stalled, rx, scope>>

\* mutant: the handler leaves without closing the socket
RecvBadFirst_NoClose(c) ==
    /\ pc[c] = "recv_reg"
    /\ pc' = [pc EXCEPT ![c] = "rc"]
    /\ wire' = Quiet
    /\ UNCHANGED <<clients, channels, lock, running, loc, sockOpen, peerUp, ops, stalled, rx, scope>>

\* handle_client: the first message is missing, undecodable or not a register
\* message: close and return (the finally clause runs remove_client)
RecvBadFirst(c) ==
    /\ pc[c] = "recv_reg"
    /\ sockOpen' = [sockOpen EXCEPT ![c] = FALSE]
    /\ pc' = [pc EXCEPT ![c] = "rc"]
    /\ wire' = Quiet
    /\ UNCHANGED <<clients, channels, lock, running, loc, peerUp, ops, stalled, rx, scope>>

\* handle_client: the welcome message to the new client
Welcome(c) ==
    /\ pc[c] = "welcome"
    /\ ~Stalling(c)
    /\ IF CanSend(c)
       THEN /\ wire' = SendTo(Quiet, c, create_message(Server, loc[c].content, "info", <<"welcome", loc[c].content>>))
            /\ pc' = [pc EXCEPT ![c] = "jb"]
            /\ UNCHANGED loc
       ELSE /\ pc' = [pc EXCEPT ![c] = "rc"]
            /\ wire' = Quiet
            /\ loc' = Forget(c)
    /\ UNCHANGED <<clients, channels, lock, running, sockOpen, peerUp, ops, stalled, rx, scope>>

\* handle_client: the list of channels to the new client, then the loop
SendChannelsList(c) ==
    /\ pc[c] = "chlist"
    /\ ~Stalling(c)
    /\ IF CanSend(c)
       THEN /\ wire' = SendTo(Quiet, c, create_message(Server, loc[c].content, "channels_list", <<"channels", DOMAIN channels>>))
            /\ pc' = [pc EXCEPT ![c] = NextLoop]
       ELSE /\ pc' = [pc EXCEPT ![c] = "rc"]
            /\ wire' = Quiet
    /\ loc' = Forget(c)
    /\ UNCHANGED <<clients, channels, lock, running, sockOpen, peerUp, ops, stalled, rx, scope>>

\* ------------------------------------------------------- the receive loop
\* mutant: a register message after registration renames the sender
Ignored_Rename(c, m) ==
    IF m.type = "register"
    THEN [clients EXCEPT ![c].nickname = m.content]
    ELSE clients

\* process_message: self.clients after a message whose type no branch tests
Ignored(c, m) == clients

\* where process_message goes for a message type
Dispatch(type) ==
    CASE type = "chat" -> "chat"
      [] type = "private" -> "pm"
      [] type = "join_channel" -> "jc"
      [] type = "create_channel" -> "cc"
      [] type = "list_users" -> "lu"
      [] OTHER -> NextLoop

\* receive_message returns a decoded message; process_message reads the
\* sender's nickname and channel without the lock (a KeyError when the entry
\* is gone ends the handler) and branches on the type. For list_users the
\* channel is the content, or the sender's current one without content.
\* Of a message that no branch handles, the type stays in the handler's
\* local until the next receive.
RecvMsg(c, m) ==
    /\ pc[c] = "recv"
    /\ CanSend(c)
    /\ ops < scope.ops
    /\ ops' = ops + 1
    /\ IF c \in Registered
       THEN /\ pc' = [pc EXCEPT ![c] = Dispatch(m.type)]
            /\ clients' = IF Dispatch(m.type) = NextLoop THEN Ignored(c, m) ELSE clients
            /\ loc' = IF Dispatch(m.type) = NextLoop
                      THEN [loc EXCEPT ![c] = Inbound(m.type, Absent, Absent, Absent)]
                      ELSE [loc EXCEPT ![c] =
                              [m EXCEPT !.sender = clients[c].nickname,
                                        !.channel = IF m.type = "list_users" /\ m.content # Absent
                                                    THEN m.content ELSE clients[c].channel]]
       ELSE /\ pc' = [pc EXCEPT ![c] = "rc"]
            /\ loc' = Forget(c)
            /\ UNCHANGED clients
    /\ wire' = Quiet
    /\ UNCHANGED <<channels, lock, running, sockOpen, peerUp, stalled, rx, scope>>

\* receive_message returns None: the stream ended, the socket was closed or
\* the bytes do not decode
RecvNone(c) ==
    /\ pc[c] = "recv"
    /\ pc' = [pc EXCEPT ![c] = "rc"]
    /\ wire' = Quiet
    /\ UNCHANGED <<clients, channels, lock, running, loc, sockOpen, peerUp, ops, stalled, rx, scope>>

\* ----------------------------------------------------------- broadcasts
\* The calls of broadcast: the message, the excluded socket and the control
\* point after the call, by the caller's control point.
BroadcastMsg(t) ==
    CASE pc[t] = "jb" -> create_message(Server, All, "info", <<"joined_chat", loc[t].content>>)
      [] pc[t] = "ccb" -> create_message(Server, All, "channels_list", <<"channels", DOMAIN channels>>)
      [] pc[t] = "rcb" -> create_message(Server, All, "info", <<"left_chat", loc[t].sender>>)
      [] pc[t] = "sd" -> create_message(Server, All, "server_shutdown", <<"shutting_down">>)

BroadcastExclude(t) == IF pc[t] = "jb" THEN {t} ELSE {}

\* After the call: remove_client and the create_channel branch are still
\* inside their own "with self.lock", whose exit would release a lock that
\* is no longer held (RuntimeError).
AfterBroadcast(p) ==
    CASE p = "jb" -> "chlist"
      [] p = "ccb" -> "rc"
      [] p = "rcb" -> "closed"
      [] p = "sd" -> "sdc"

\* broadcast: the recipients of a message
BroadcastTargets(exclude) == Registered \ exclude

\* broadcast: acquire the lock, send to every registered socket but the
\* excluded one, release
Broadcast(t) ==
    /\ pc[t] \in {"jb", "ccb", "rcb", "sd"}
    /\ LockFree
    /\ ~\E x \in BroadcastTargets(BroadcastExclude(t)) : Stalling(x)
    /\ wire' = FanOut(BroadcastTargets(BroadcastExclude(t)), BroadcastMsg(t))
    /\ pc' = [pc EXCEPT ![t] = AfterBroadcast(pc[t])]
    /\ UNCHANGED <<clients, channels, lock, running, loc, sockOpen, peerUp, ops, stalled, rx, scope>>

\* mutant: the message goes to every registered socket, as in broadcast
ChannelTargets_Everyone(channel, exclude) == Registered \ exclude

\* broadcast_to_channel: the recipients of a message
ChannelTargets(channel, exclude) == channels[channel] \ exclude

\* mutant: the sender is excluded whatever echo says
ChatExclude_Always(c) == {c}

\* process_message (chat): the sender is excluded unless echo is set
ChatExclude(c) == IF EchoFlag(loc[c]) THEN {} ELSE {c}

\* the calls of broadcast_to_channel: chat forwards to the sender's channel;
\* join_channel announces to the joined channel, excluding the joiner
ChannelBroadcastTargets(c) ==
    IF pc[c] = "chat"
    THEN ChannelTargets(loc[c].channel, ChatExclude(c))
    ELSE ChannelTargets(loc[c].content, {c})

ChannelBroadcastMsg(c) ==
    IF pc[c] = "chat"
    THEN create_message(loc[c].sender, loc[c].channel, "chat", <<"text", loc[c].content>>)
    ELSE create_message(Server, loc[c].content, "info", <<"joined_channel", loc[c].sender>>)

ChannelBroadcast(c) ==
    /\ pc[c] \in {"chat", "jcb"}
    /\ LockFree
    /\ ~\E x \in ChannelBroadcastTargets(c) : Stalling(x)
    /\ wire' = FanOut(ChannelBroadcastTargets(c), ChannelBroadcastMsg(c))
    /\ pc' = [pc EXCEPT ![c] = NextLoop]
    /\ loc' = Forget(c)
    /\ UNCHANGED <<clients, channels, lock, running, sockOpen, peerUp, ops, stalled, rx, scope>>

\* ------------------------------------------------------ process_message
\* private: the lookup of the recipient under the lock
PrivateLookup(c) ==
    /\ pc[c] = "pm"
    /\ LockFree
    /\ IF Lookup(loc[c].recipient) = {}
       THEN loc' = [loc EXCEPT ![c].target = {}]
       ELSE \E r \in Lookup(loc[c].recipient) : loc' = [loc EXCEPT ![c].target = {r}]
    /\ pc' = [pc EXCEPT ![c] = "pm_send"]
    /\ wire' = Quiet
    /\ UNCHANGED <<clients, channels, lock, running, sockOpen, peerUp, ops, stalled, rx, scope>>

\* private: the sends after the lookup. A failed send raises out of
\* process_message, and handle_client's finally clause removes the sender.
PrivateOutcome(c) ==
    LET fwd == create_message(loc[c].sender, loc[c].recipient, "private", <<"text", loc[c].content>>)
        err == create_message(Server, loc[c].sender, "error", <<"user_not_found", loc[c].recipient>>)
    IN  IF loc[c].target = {}
        THEN IF CanSend(c)
             THEN [ob |-> SendTo(Quiet, c, err), next |-> NextLoop]
             ELSE [ob |-> Quiet, next |-> "rc"]
        ELSE LET r == CHOOSE x \in loc[c].target : TRUE
             IN  IF ~CanSend(r)
                 THEN [ob |-> Quiet, next |-> "rc"]
                 ELSE IF ~EchoFlag(loc[c])
                      THEN [ob |-> SendTo(Quiet, r, fwd), next |-> NextLoop]
                      ELSE IF CanSend(c)
                           THEN [ob |-> SendTo(SendTo(Quiet, r, fwd), c, fwd), next |-> NextLoop]
                           ELSE [ob |-> SendTo(Quiet, r, fwd), next |-> "rc"]

\* the send of the private branch that comes first does not return
PrivateBlocks(c) ==
    IF loc[c].target = {} THEN Stalling(c) ELSE \E r \in loc[c].target : Stalling(r)

\* the recipient has the message and the echo to the sender does not return
PrivateEchoStalls(c) ==
    /\ \E r \in loc[c].target : CanSend(r) /\ ~Stalling(r)
    /\ EchoFlag(loc[c])
    /\ Stalling(c)

PrivateSend(c) ==
    /\ pc[c] = "pm_send"
    /\ ~PrivateBlocks(c)
    /\ ~PrivateEchoStalls(c)
    /\ wire' = PrivateOutcome(c).ob
    /\ pc' = [pc EXCEPT ![c] = PrivateOutcome(c).next]
    /\ loc' = Forget(c)
    /\ UNCHANGED <<clients, channels, lock, running, sockOpen, peerUp, ops, stalled, rx, scope>>

\* private: the message is forwarded and the handler stays in the echo's
\* sendall
PrivateEchoBlocks(c) ==
    /\ pc[c] = "pm_send"
    /\ PrivateEchoStalls(c)
    /\ wire' = FanOut(loc[c].target,
                      create_message(loc[c].sender, loc[c].recipient, "private", <<"text", loc[c].content>>))
    /\ pc' = [pc EXCEPT ![c] = "pm_echo"]
    /\ UNCHANGED <<clients, channels, lock, running, loc, sockOpen, peerUp, ops, stalled, rx, scope>>

\* the channel registry with channel_name created if it does not exist
WithChannel(name) ==
    IF name \in DOMAIN channels THEN channels
    ELSE [ch \in DOMAIN channels \cup {name} |-> IF ch = name THEN {} ELSE channels[ch]]

\* join_channel: the member sets after c leaves its current channel (when
\* "if current_channel:" lets it) and enters channel_name
MoveChannel(c, name) ==
    LET created == WithChannel(name)
        current == clients[c].channel
        left == IF Truthy(current) THEN [created EXCEPT ![current] = @ \ {c}] ELSE created
    IN  [left EXCEPT ![name] = @ \cup {c}]

\* join_channel: the block under the lock. Without an entry for c the read
\* of the current channel raises after the channel was created.
Join(c) ==
    /\ pc[c] = "jc"
    /\ LockFree
    /\ IF c \in Registered
       THEN /\ channels' = MoveChannel(c, loc[c].content)
            /\ clients' = [clients EXCEPT ![c].channel = loc[c].content]
            /\ pc' = [pc EXCEPT ![c] = "jc_send"]
            /\ UNCHANGED loc
       ELSE /\ channels' = WithChannel(loc[c].content)
            /\ pc' = [pc EXCEPT ![c] = "rc"]
            /\ loc' = Forget(c)
            /\ UNCHANGED clients
    /\ wire' = Quiet
    /\ UNCHANGED <<lock, running, sockOpen, peerUp, ops, stalled, rx, scope>>

\* join_channel: the confirmation to the joiner
JoinSend(c) ==
    /\ pc[c] = "jc_send"
    /\ ~Stalling(c)
    /\ IF CanSend(c)
       THEN /\ wire' = SendTo(Quiet, c, create_message(Server, loc[c].sender, "info", <<"you_joined", loc[c].content>>))
            /\ pc' = [pc EXCEPT ![c] = "jcb"]
            /\ UNCHANGED loc
       ELSE /\ pc' = [pc EXCEPT ![c] = "rc"]
            /\ wire' = Quiet
            /\ loc' = Forget(c)
    /\ UNCHANGED <<clients, channels, lock, running, sockOpen, peerUp, ops, stalled, rx, scope>>

\* mutant: the test for an existing channel finds none
ChannelExists_Never(name) == FALSE

\* create_channel: channel_name in self.channels
ChannelExists(name) == name \in DOMAIN channels

\* create_channel: the block under the lock. On success it calls broadcast,
\* which acquires self.lock, before the block ends.
Create(c) ==
    /\ pc[c] = "cc"
    /\ LockFree
    /\ ~Stalling(c)
    /\ IF ChannelExists(loc[c].content)
       THEN /\ wire' = IF CanSend(c)
                         THEN SendTo(Quiet, c, create_message(Server, loc[c].sender, "error", <<"channel_exists", loc[c].content>>))
                         ELSE Quiet
            /\ pc' = [pc EXCEPT ![c] = IF CanSend(c) THEN NextLoop ELSE "rc"]
            /\ UNCHANGED <<channels, lock>>
       ELSE /\ channels' = WithChannel(loc[c].content)
            /\ wire' = IF CanSend(c)
                         THEN SendTo(Quiet, c, create_message(Server, loc[c].sender, "info", <<"channel_created", loc[c].content>>))
                         ELSE Quiet
            /\ pc' = [pc EXCEPT ![c] = IF CanSend(c) THEN "ccb" ELSE "rc"]
            /\ lock' = IF CanSend(c) THEN {c} ELSE lock
    /\ loc' = Forget(c)
    /\ UNCHANGED <<clients, running, sockOpen, peerUp, ops, stalled, rx, scope>>

\* list_users: the block gets to its send_message (every member of an
\* existing channel has an entry in self.clients)
ListUsersReplies(c) ==
    loc[c].channel \in DOMAIN channels => channels[loc[c].channel] \subseteq Registered

\* mutant: the reply lists every registered nickname
ListUsers_Everyone(c) ==
    /\ pc[c] = "lu"
    /\ LockFree
    /\ ~Stalling(c)
    /\ wire' = IF CanSend(c)
               THEN SendTo(Quiet, c, create_message(Server, loc[c].sender, "users_list",
                                    <<"users", {clients[s].nickname : s \in Registered}>>))
               ELSE Quiet
    /\ pc' = [pc EXCEPT ![c] = IF CanSend(c) THEN NextLoop ELSE "rc"]
    /\ loc' = Forget(c)
    /\ UNCHANGED <<clients, channels, lock, running, sockOpen, peerUp, ops, stalled, rx, scope>>

\* list_users: the block under the lock. A member without an entry in
\* self.clients makes the list comprehension raise.
ListUsers(c) ==
    /\ pc[c] = "lu"
    /\ LockFree
    /\ ~(Stalling(c) /\ ListUsersReplies(c))
    /\ LET ch == loc[c].channel
           reply == IF ch \in DOMAIN channels
                    THEN create_message(Server, loc[c].sender, "users_list",
                                        <<"users", {clients[s].nickname : s \in channels[ch] \cap Registered}>>)
                    ELSE create_message(Server, loc[c].sender, "error", <<"no_such_channel", ch>>)
           ok == CanSend(c) /\ (ch \in DOMAIN channels => channels[ch] \subseteq Registered)
       IN  /\ wire' = IF ok THEN SendTo(Quiet, c, reply) ELSE Quiet
           /\ pc' = [pc EXCEPT ![c] = IF ok THEN NextLoop ELSE "rc"]
    /\ loc' = Forget(c)
    /\ UNCHANGED <<clients, channels, lock, running, sockOpen, peerUp, ops, stalled, rx, scope>>

\* ---------------------------------------------------------- remove_client
\* mutant: a channel left without members is deleted
Deregister_DropEmpty(c) ==
    LET ch == clients[c].channel
        keep == IF ch \in DOMAIN channels /\ channels[ch] \subseteq {c}
                THEN DOMAIN channels \ {ch} ELSE DOMAIN channels
    IN  [cl |-> [s \in Registered \ {c} |-> clients[s]],
         ch |-> [k \in keep |-> channels[k] \ {c}]]

\* the registries after remove_client's deletions
Deregister(c) ==
    [cl |-> [s \in Registered \ {c} |-> clients[s]],
     ch |-> IF clients[c].channel \in DOMAIN channels
            THEN [channels EXCEPT ![clients[c].channel] = @ \ {c}]
            ELSE channels]

\* mutant: the block goes on to the departure broadcast without an entry
\* for the socket
Remove_AlwaysAnnounce(c) ==
    /\ pc[c] = "rc"
    /\ LockFree
    /\ clients' = [s \in Registered \ {c} |-> clients[s]]
    /\ channels' = IF c \in Registered THEN Deregister(c).ch ELSE channels
    /\ lock' = {c}
    /\ pc' = [pc EXCEPT ![c] = "rcb"]
    /\ wire' = Quiet
    /\ UNCHANGED <<running, loc, sockOpen, peerUp, ops, stalled, rx, scope>>

\* mutant: the lock lets its holder in again, so the broadcast inside the
\* block goes ahead
Remove_Reentrant(c) ==
    /\ pc[c] = "rc"
    /\ LockFree
    /\ IF c \in Registered
       THEN /\ clients' = Deregister(c).cl
            /\ channels' = Deregister(c).ch
            /\ loc' = [loc EXCEPT ![c].sender = clients[c].nickname]
            /\ pc' = [pc EXCEPT ![c] = "rcb"]
            /\ UNCHANGED <<sockOpen, lock>>
       ELSE /\ sockOpen' = [sockOpen EXCEPT ![c] = FALSE]
            /\ pc' = [pc EXCEPT ![c] = "closed"]
            /\ UNCHANGED <<clients, channels, loc, lock>>
    /\ wire' = Quiet
    /\ UNCHANGED <<running, peerUp, ops, stalled, rx, scope>>

\* remove_client: the block under the lock. For a registered client it
\* deletes the entries and calls broadcast, which acquires self.lock, before
\* the block ends; otherwise the block ends and the socket is closed.
Remove(c) ==
    /\ pc[c] = "rc"
    /\ LockFree
    /\ IF c \in Registered
       THEN /\ clients' = Deregister(c).cl
            /\ channels' = Deregister(c).ch
            /\ loc' = [loc EXCEPT ![c].sender = clients[c].nickname]
            /\ lock' = {c}
            /\ pc' = [pc EXCEPT ![c] = "rcb"]
            /\ UNCHANGED sockOpen
       ELSE /\ sockOpen' = [sockOpen EXCEPT ![c] = FALSE]
            /\ pc' = [pc EXCEPT ![c] = "closed"]
            /\ UNCHANGED <<clients, channels, loc, lock>>
    /\ wire' = Quiet
    /\ UNCHANGED <<running, peerUp, ops, stalled, rx, scope>>

\* ------------------------------------------------- sends under the lock
\* The registered sockets that the "with self.lock" block at a thread's
\* control point sends to.
LockedTargets(t) ==
    CASE pc[t] \in {"jb", "ccb", "rcb", "sd"} -> BroadcastTargets(BroadcastExclude(t))
      [] pc[t] \in {"chat", "jcb"} -> ChannelBroadcastTargets(t)
      [] pc[t] = "cc" -> {t}
      [] pc[t] = "lu" -> IF ListUsersReplies(t) THEN {t} ELSE {}
      [] OTHER -> {}

\* what the loop of a fan-out wrote before it reached the stalled socket
\* (the order of the loop is the dict's or the set's, which is not kept)
LockedPartial(t) ==
    CASE pc[t] \in {"jb", "ccb", "rcb", "sd"} ->
             {FanOut(S, BroadcastMsg(t)) : S \in SUBSET {x \in LockedTargets(t) : ~Stalling(x)}}
      [] pc[t] \in {"chat", "jcb"} ->
             {FanOut(S, ChannelBroadcastMsg(t)) : S \in SUBSET {x \in LockedTargets(t) : ~Stalling(x)}}
      [] OTHER -> {Quiet}

\* A thread acquires the lock and its sendall to a stalled peer does not
\* return: the thread stays where it is, holding the lock. create_channel
\* has entered the new channel before its send.
SendBlocks(t) ==
    /\ LockFree
    /\ \E x \in LockedTargets(t) : Stalling(x)
    /\ lock' = {t}
    /\ channels' = IF pc[t] = "cc" THEN WithChannel(loc[t].content) ELSE channels
    /\ wire' \in LockedPartial(t)
    /\ UNCHANGED <<clients, running, pc, loc, sockOpen, peerUp, ops, stalled, rx, scope>>

\* --------------------------------------------------------------- shutdown
\* the stop signal ends the accept loop; shutdown clears self.running
Stop ==
    /\ pc[Main] = "listening"
    /\ ops < scope.ops
    /\ ops' = ops + 1
    /\ running' = FALSE
    /\ pc' = [pc EXCEPT ![Main] = "sd"]
    /\ wire' = Quiet
    /\ UNCHANGED <<clients, channels, lock, loc, sockOpen, peerUp, stalled, rx, scope>>

\* shutdown: close every registered socket and clear self.clients
ShutdownClose ==
    /\ pc[Main] = "sdc"
    /\ LockFree
    /\ sockOpen' = [c \in Conns |-> IF c \in Registered THEN FALSE ELSE sockOpen[c]]
    /\ clients' = << >>
    /\ pc' = [pc EXCEPT ![Main] = "stopped"]
    /\ wire' = Quiet
    /\ UNCHANGED <<channels, lock, running, loc, peerUp, ops, stalled, rx, scope>>

\* ------------------------------------------------- the stream of a client
serverVars == <<clients, channels, lock, running, pc, loc, sockOpen, peerUp, wire, ops,
                stalled, scope>>

\* a connection in its receive loop whose peer is about to write 1..MaxUnits
\* units
FramingInit ==
    /\ ServerInit
    /\ scope = [conns |-> NumConns, ops |-> MaxOps]
    /\ rx \in {[plan |-> Stream(1, n), sock |-> << >>, buffer |-> << >>, routed |-> << >>,
                units |-> n, at |-> "recv"] : n \in 1..MaxUnits}

\* the next k bytes of the peer arrive at the server's socket
PeerWrite(k) ==
    /\ k \in 1..Len(rx.plan)
    /\ rx' = [rx EXCEPT !.plan = SubSeq(@, k + 1, Len(@)),
                        !.sock = @ \o SubSeq(rx.plan, 1, k)]
    /\ UNCHANGED serverVars

\* receive_message: recv returns what has arrived (less than 4096 bytes);
\* with a newline in the buffer the bytes before the first one are decoded
\* and returned, and the rest of the buffer goes with the call's locals.
\* handle_client hands the message to process_message, or leaves the loop on
\* None.
RecvData ==
    /\ rx.at = "recv"
    /\ rx.sock # << >>
    /\ LET buf == rx.buffer \o rx.sock
       IN  IF ~HasNL(buf)
           THEN rx' = [rx EXCEPT !.sock = << >>, !.buffer = buf]
           ELSE IF Decode(BeforeNL(buf)) # 0
                THEN rx' = [rx EXCEPT !.sock = << >>, !.buffer = << >>,
                                      !.routed = Append(@, Decode(BeforeNL(buf)))]
                ELSE rx' = [rx EXCEPT !.sock = << >>, !.buffer = << >>, !.at = "closed"]
    /\ UNCHANGED serverVars

\* receive_message: the peer has written everything and closed; recv returns
\* no bytes and handle_client leaves the loop
RecvEOF ==
    /\ rx.at = "recv"
    /\ rx.plan = << >>
    /\ rx.sock = << >>
    /\ rx' = [rx EXCEPT !.buffer = << >>, !.at = "closed"]
    /\ UNCHANGED serverVars

FramingNext ==
    \/ \E k \in 1..(4 * MaxUnits) : PeerWrite(k)
    \/ RecvData
    \/ RecvEOF

FramingSpec == FramingInit /\ [][FramingNext]_vars

\* ------------------------------------------------------------------ Next
Next ==
    \/ \E t \in Threads : Broadcast(t)
    \/ \E c \in Conns : Accept(c)
    \/ \E c \in Conns : PeerReset(c)
    \/ \E c \in Conns : PeerStall(c)
    \/ \E t \in Threads : SendBlocks(t)
    \/ \E c \in Conns : PrivateEchoBlocks(c)
    \/ \E c \in Conns : \E n \in NickChoices(c) : Register(c, n)
    \/ \E c \in Conns : RecvBadFirst(c)
    \/ \E c \in Conns : Welcome(c)
    \/ \E c \in Conns : SendChannelsList(c)
    \/ \E c \in Conns, m \in InboundMsgs : RecvMsg(c, m)
    \/ \E c \in Conns : RecvNone(c)
    \/ \E c \in Conns : ChannelBroadcast(c)
    \/ \E c \in Conns : PrivateLookup(c)
    \/ \E c \in Conns : PrivateSend(c)
    \/ \E c \in Conns : Join(c)
    \/ \E c \in Conns : JoinSend(c)
    \/ \E c \in Conns : Create(c)
    \/ \E c \in Conns : ListUsers(c)
    \/ \E c \in Conns : Remove(c)
    \/ Stop
    \/ ShutdownClose

Spec == Init /\ [][Next]_vars


\* Every thread that can take a step of the server's code eventually takes
\* one; the lock gives no more than weak fairness to a waiting thread.
ServerStep(t) ==
    \/ Broadcast(t)
    \/ SendBlocks(t)
    \/ /\ t \in Conns
       /\ \/ PrivateEchoBlocks(t)
          \/ Welcome(t) \/ SendChannelsList(t) \/ ChannelBroadcast(t)
          \/ PrivateLookup(t) \/ PrivateSend(t) \/ Join(t) \/ JoinSend(t)
          \/ Create(t) \/ ListUsers(t) \/ Remove(t)
    \/ /\ t = Main
       /\ ShutdownClose

FairSpec == Spec /\ \A t \in Threads : WF_vars(ServerStep(t))

\* ================================================================ claims
\* the only message on the wire goes to c
OnlyTo(c, m) == [x \in Conns |-> IF x = c THEN <<m>> ELSE << >>]

\* C1: no two entries of the connection registry hold the same nickname.
C1_NicknamesUnique ==
    \A a \in Registered : \A b \in Registered :
        a # b => clients[a].nickname # clients[b].nickname

\* C1 witness: two connections are registered and a third has just been
\* refused its nickname.
C1_Witness ==
    /\ Cardinality(Registered) = 2
    /\ \E c \in Conns \ Registered :
          /\ pc[c] = "rc"
          /\ wire[c] # << >>
          /\ wire[c][1].type = "error"

\* C2: whenever the lock is free, every registered connection's channel
\* exists, has the connection as a member, and no other channel has it.
C2_ExactlyOneChannel ==
    LockFree =>
        \A c \in Registered :
            /\ clients[c].channel \in DOMAIN channels
            /\ \A ch \in DOMAIN channels : c \in channels[ch] <=> ch = clients[c].channel

\* C3: a register with a nickname that a registered connection holds sends
\* the error to the new connection alone (when its transport takes it),
\* closes its socket, and leaves both registries as they were; a connection
\* that is on its way out unregistered is never entered in either registry,
\* and ends with its socket closed.
C3_CollisionRejected ==
    [][\A c \in Conns :
        /\ \A n \in Nicks :
             (Register(c, n) /\ \E a \in Registered : clients[a].nickname = n) =>
                /\ wire' = IF peerUp[c]
                           THEN OnlyTo(c, create_message(Server, n, "error", <<"nickname_in_use">>))
                           ELSE Quiet
                /\ peerUp[c] => ~sockOpen'[c]
                /\ clients' = clients
                /\ channels' = channels
                /\ pc'[c] = "rc"
        /\ (pc[c] \in {"rc", "closed"} /\ c \notin Registered) =>
                /\ c \notin DOMAIN clients'
                /\ \A ch \in DOMAIN channels' :
                      c \in channels'[ch] => (ch \in DOMAIN channels /\ c \in channels[ch])
                /\ pc'[c] = "closed" => ~sockOpen'[c]
      ]_vars

\* C3 witness: a connection has just been refused a nickname that a
\* registered connection holds; it got the error and its socket is closed.
C3_Witness ==
    \E c \in Conns \ Registered :
        /\ pc[c] = "rc"
        /\ ~sockOpen[c]
        /\ wire[c] # << >>
        /\ wire[c][1].type = "error"
        /\ \E a \in Registered : clients[a].nickname = wire[c][1].recipient

\* C4: a register with a nickname that nobody holds always succeeds: the
\* connection is entered under that nickname with channel general and in
\* the member set of general, and after it the nickname lookup resolves
\* every registered nickname to exactly the connection that holds it.
C4_DistinctRegistrationsSucceed ==
    [][\A c \in Conns : \A n \in Nicks :
          (Register(c, n) /\ ~\E a \in Registered : clients[a].nickname = n) =>
             /\ c \in DOMAIN clients'
             /\ clients'[c] = [nickname |-> n, channel |-> General]
             /\ c \in channels'[General]
             /\ \A s \in DOMAIN clients' :
                   {x \in DOMAIN clients' : clients'[x].nickname = clients'[s].nickname} = {s}
             /\ \A s \in Registered : clients'[s] = clients[s]
      ]_vars

\* C4 witness: three connections registered under three nicknames, the last
\* one while the others were still in their registration sequence.
C4_Witness ==
    /\ Registered = Conns
    /\ \A c \in Conns : c \in channels[General]
    /\ Cardinality({clients[c].nickname : c \in Conns}) = NumConns
    /\ Cardinality({c \in Conns : pc[c] \in {"welcome", "jb", "chlist"}}) >= 2

\* C5: no step removes a channel name, and general is always a channel.
C5_ChannelsNeverRemoved ==
    [][/\ DOMAIN channels \subseteq DOMAIN channels'
       /\ General \in DOMAIN channels'
      ]_vars

\* C5 witness: the server has shut down, no connection is registered, and
\* a created channel and general are both still there.
C5_Witness ==
    /\ pc[Main] = "stopped"
    /\ Registered = {}
    /\ \A c \in Conns : pc[c] \in {"closed", "rcb"}
    /\ General \in DOMAIN channels
    /\ "dev" \in DOMAIN channels


\* C6: a registered connection whose stream has ended is eventually closed:
\* out of both registries, its socket closed, the lock free again.
C6_DisconnectCompletes ==
    \A c \in Conns :
        (pc[c] = "rc" /\ c \in Registered)
            ~> (pc[c] = "closed" /\ c \notin Registered /\ ~sockOpen[c] /\ LockFree)

\* the control points of a handler inside process_message or the
\* registration sequence after the welcome
Serving == {"jb", "chlist", "chat", "pm", "pm_send", "jc", "jc_send", "jcb", "cc", "lu"}

\* C7: while the server runs, a step of the handler of a registered
\* connection whose own transport is up never ends that handler: a failed
\* send to another connection does not reach the sender's handler.
C7_SendFailureNotEscalated ==
    [][\A s \in Conns :
          (pc[s] \in Serving /\ s \in Registered /\ CanSend(s) /\ running)
              => pc'[s] # "rc"
      ]_vars

\* C8: a chat message of a registered connection s goes, as a chat message
\* from s's nickname, to every member of s's current channel other than s
\* whose transport takes it, to s itself exactly when echo is true, and to
\* nobody else; the registries stay as they are.
C8_ChatFanOut ==
    [][\A s \in Conns :
          (pc[s] = "chat" /\ pc'[s] # "chat" /\ s \in Registered) =>
              LET ch == clients[s].channel
                  fwd == create_message(clients[s].nickname, ch, "chat", <<"text", loc[s].content>>)
              IN  /\ \A x \in Conns :
                        wire'[x] = IF /\ x \in channels[ch]
                                      /\ CanSend(x)
                                      /\ (x # s \/ loc[s].echo = "true")
                                   THEN <<fwd>> ELSE << >>
                  /\ clients' = clients
                  /\ channels' = channels
      ]_vars

\* C8 witness: a chat message without echo has just reached another member
\* of the sender's channel, and neither the sender nor a registered
\* connection of another channel got anything.
C8_Witness ==
    \E s \in Registered : \E m \in Registered \ {s} : \E x \in Registered \ {s, m} :
        /\ clients[m].channel = clients[s].channel
        /\ clients[x].channel # clients[s].channel
        /\ CanSend(x) /\ CanSend(s)
        /\ wire[m] # << >>
        /\ wire[m][1].type = "chat"
        /\ wire[m][1].sender = clients[s].nickname
        /\ wire[s] = << >>
        /\ wire[x] = << >>

\* a second witness state of C8: with echo the sender got its own message
C8_EchoReached ==
    \E s \in Registered :
        /\ wire[s] # << >>
        /\ wire[s][1].type = "chat"
        /\ wire[s][1].sender = clients[s].nickname

\* C9: a private message of a connection s whose transport is up and takes
\* what is sent goes to
\* the connection holding the nickname (when its transport takes it) and,
\* exactly when echo is true, to s as well, and to nobody else; when no
\* connection holds the nickname, s alone gets the error, the registries
\* stay as they are and s goes on with its loop.
C9_PrivateDelivery ==
    [][\A s \in Conns :
          (pc[s] = "pm_send" /\ pc'[s] # "pm_send" /\ CanSend(s) /\ ~Stalling(s)) =>
              LET fwd == create_message(loc[s].sender, loc[s].recipient, "private", <<"text", loc[s].content>>)
                  err == create_message(Server, loc[s].sender, "error", <<"user_not_found", loc[s].recipient>>)
              IN  /\ clients' = clients
                  /\ channels' = channels
                  /\ IF loc[s].target = {}
                     THEN /\ wire' = OnlyTo(s, err)
                          /\ pc'[s] = NextLoop
                     ELSE \A x \in Conns :
                             wire'[x] = (IF x \in loc[s].target /\ CanSend(x) THEN <<fwd>> ELSE << >>)
                                        \o (IF x = s /\ loc[s].echo = "true" THEN <<fwd>> ELSE << >>)
      ]_vars

\* C10: once create_channel has entered a new channel and sent the success
\* reply, the operation completes: the handler leaves the broadcast of the
\* channel list and the lock is released.
C10_CreateCompletes ==
    \A c \in Conns : (pc[c] = "ccb") ~> (pc[c] # "ccb" /\ lock # {c})

\* C11: create_channel with a name that is already a channel, from a
\* connection whose transport takes the reply: the sender alone gets an
\* error, no other message is written, both registries and the lock stay as
\* they are, and the handler goes on with its receive loop.
C11_CreateExistingRejected ==
    [][\A c \in Conns :
          (pc[c] = "cc" /\ pc'[c] # "cc" /\ loc[c].content \in DOMAIN channels /\ CanSend(c)) =>
              /\ wire' = OnlyTo(c, create_message(Server, loc[c].sender, "error",
                                                  <<"channel_exists", loc[c].content>>))
              /\ clients' = clients
              /\ channels' = channels
              /\ lock' = lock
              /\ c \in DOMAIN clients'
              /\ sockOpen'[c]
              /\ pc'[c] = NextLoop
      ]_vars

\* C11 witness: a registered connection has just been told that general
\* exists; it is back in its receive loop, and another registered connection
\* whose transport is up got nothing.
C11_Witness ==
    \E c \in Registered : \E x \in Registered \ {c} :
        /\ pc[c] = "recv"
        /\ wire[c] # << >>
        /\ wire[c][1].type = "error"
        /\ wire[c][1].content = <<"channel_exists", General>>
        /\ CanSend(x)
        /\ wire[x] = << >>
        /\ LockFree

\* C12: join_channel of a registered connection c to the name T: after the
\* step T is a channel (with c as its only member if it was not one), c's
\* channel field is T, c is a member of T and no longer of its previous
\* channel (unless that is T), the previous channel is still a channel, and
\* the entries and memberships of every other connection are as before.
C12_JoinMoves ==
    [][\A c \in Conns :
          (pc[c] = "jc" /\ pc'[c] # "jc" /\ c \in Registered) =>
              LET T == loc[c].content
                  P == clients[c].channel
              IN  /\ pc'[c] = "jc_send"
                  /\ T \in DOMAIN channels'
                  /\ T \notin DOMAIN channels => channels'[T] = {c}
                  /\ c \in DOMAIN clients'
                  /\ clients'[c].channel = T
                  /\ c \in channels'[T]
                  /\ P \in DOMAIN channels'
                  /\ P # T => c \notin channels'[P]
                  /\ \A x \in Registered \ {c} : x \in DOMAIN clients' /\ clients'[x] = clients[x]
                  /\ \A ch \in DOMAIN channels : channels'[ch] \ {c} = channels[ch] \ {c}
      ]_vars

\* C13: the units handed to process_message are the units the peer wrote,
\* in order and once each: at any time a prefix of them, and all of them
\* once every byte of the stream has been written and read.
C13_EveryUnitRouted ==
    /\ Len(rx.routed) <= rx.units
    /\ \A i \in 1..Len(rx.routed) : rx.routed[i] = i
    /\ (rx.at = "recv" /\ rx.plan = << >> /\ rx.sock = << >> /\ rx.buffer = << >>)
          => Len(rx.routed) = rx.units

\* C14: once shutdown has begun, the server eventually is stopped with the
\* connection registry empty and the socket of every accepted connection,
\* registered or not, closed.
C14_ShutdownCompletes ==
    (pc[Main] = "sd")
        ~> (pc[Main] = "stopped" /\ Registered = {} /\ \A c \in Conns : ~sockOpen[c])

C17_RemoveUnregisteredNoOp ==
    [][\A c \in Conns :
          (pc[c] = "rc" /\ c \notin Registered /\ pc'[c] # "rc") =>
              /\ clients' = clients
              /\ channels' = channels
              /\ wire' = Quiet
              /\ lock' = {}
              /\ pc'[c] = "closed"
              /\ ~sockOpen'[c]
      ]_vars

\* C17 witness: a connection that was registered (it is still in the member
\* set of general) lost its entry when shutdown cleared the registry, and
\* its handler's remove_client has since returned.
C17_Witness ==
    \E c \in Conns :
        /\ pc[Main] = "stopped"
        /\ pc[c] = "closed"
        /\ c \notin Registered
        /\ c \in channels[General]
        /\ LockFree

\* the control points whose "with self.lock" block calls send_message for a
\* registered socket
LockedSendPoints == {"jb", "sd", "chat", "jcb", "cc", "lu"}

\* C18: no thread holds the lock while it waits in a send, so a peer that
\* has stopped reading never keeps another thread from the registries.
C18_NoSendUnderLock ==
    \A t \in Threads : lock = {t} => pc[t] \notin LockedSendPoints

\* C19: list_users of a registered connection s whose transport takes the
\* reply, for the channel named in the content, or s's current channel
\* without content: s alone gets the users_list with the nicknames of that
\* channel's members, or an error when there is no such channel; the
\* registries are unchanged and s goes on with its loop.
C19_ListUsers ==
    [][\A s \in Conns :
          (pc[s] = "lu" /\ pc'[s] # "lu" /\ s \in Registered /\ CanSend(s)) =>
              LET C == IF loc[s].content # Absent THEN loc[s].content ELSE clients[s].channel
                  nick == clients[s].nickname
              IN  /\ clients' = clients
                  /\ channels' = channels
                  /\ pc'[s] = NextLoop
                  /\ IF C \in DOMAIN channels
                     THEN /\ channels[C] \subseteq Registered
                          /\ wire' = OnlyTo(s, create_message(Server, nick, "users_list",
                                       <<"users", {clients[x].nickname : x \in channels[C]}>>))
                     ELSE wire' = OnlyTo(s, create_message(Server, nick, "error",
                                                           <<"no_such_channel", C>>))
      ]_vars

\* C19 witness: with one registered connection in another channel, a
\* connection has just been sent the two nicknames of general and is back
\* in its receive loop.
C19_Witness ==
    \E s \in Registered : \E x \in Registered \ channels[General] :
        /\ Cardinality(channels[General]) = 2
        /\ channels[General] \subseteq Registered
        /\ pc[s] = "recv"
        /\ wire = OnlyTo(s, create_message(Server, clients[s].nickname, "users_list",
                             <<"users", {clients[m].nickname : m \in channels[General]}>>))
        /\ CanSend(x)

\* C19, the error half: a connection has just been told that the channel
\* it asked about does not exist.
C19_NoSuchChannelReached ==
    \E s \in Registered :
        /\ wire[s] # << >>
        /\ wire[s][1].type = "error"
        /\ wire[s][1].content = <<"no_such_channel", "dev">>
        /\ pc[s] = "recv"

\* the sum of the member counts of the channels in names
RECURSIVE MemberCount(_)
MemberCount(names) ==
    IF names = {} THEN 0
    ELSE LET ch == CHOOSE x \in names : TRUE
         IN  Cardinality(channels[ch]) + MemberCount(names \ {ch})

\* C20: whenever the lock is free, every member of every channel is a
\* registered connection, and the member counts of the channels add up to
\* the number of registered connections.
C20_RegistriesInStep ==
    LockFree =>
        /\ \A ch \in DOMAIN channels : channels[ch] \subseteq Registered
        /\ MemberCount(DOMAIN channels) = Cardinality(Registered)

\* the message types process_message has a branch for
Handled == {"chat", "private", "join_channel", "create_channel", "list_users"}

\* C21: a message of a registered connection whose type has no branch (an
\* unknown type, or register again) changes neither registry, in particular
\* no nickname, writes nothing to any socket, takes no lock, and leaves the
\* connection registered, its socket open and its handler at the next
\* receive.
C21_UnhandledIgnored ==
    [][\A c \in Conns : \A m \in InboundMsgs :
          (RecvMsg(c, m) /\ c \in Registered /\ m.type \notin Handled) =>
              /\ clients' = clients
              /\ channels' = channels
              /\ wire' = Quiet
              /\ lock' = lock
              /\ sockOpen'[c]
              /\ pc'[c] = IF running THEN "recv" ELSE "rc"
      ]_vars

\* C21 witness: a connection registered under another nickname has sent a
\* register message; it keeps its nickname, another registered connection
\* is there to see nothing, and the handler is at its receive with its
\* socket up.
C21_Witness ==
    \E c \in Registered : \E x \in Registered \ {c} :
        /\ loc[c].type = "register"
        /\ pc[c] = "recv"
        /\ clients[c].nickname # "carol"
        /\ CanSend(c)
        /\ CanSend(x)
        /\ wire = Quiet
        /\ LockFree

\* the control points at a call of broadcast from inside the caller's own
\* "with self.lock" block: remove_client and the create_channel branch
NestedBroadcastPoints == {"rcb", "ccb"}

\* C22: no thread waits for the lock while it is the thread that holds it.
C22_NoSelfWait ==
    \A t \in Threads : ~(lock = {t} /\ pc[t] \in NestedBroadcastPoints)

\* C23: between its registration and its welcome no handler's step writes
\* to a connection's socket: the first handler step that writes to it is its
\* own welcome.
C23_WelcomeFirst ==
    [][\A c \in Conns :
          (pc[c] = "welcome" /\ wire'[c] # << >> /\ pc'[Main] = pc[Main]) =>
              /\ pc'[c] = "jb"
              /\ wire'[c] = <<create_message(Server, clients[c].nickname, "info",
                                             <<"welcome", clients[c].nickname>>)>>
      ]_vars

====
